---- MODULE Spec2Model ----
(***************************************************************************)
(* Model of the bore relay server (src/src/server.rs): the control         *)
(* connection handler, the port allocator (create_listener), the listener  *)
(* task of a tunnel, the expiry task of a pending visitor connection, and  *)
(* the two concurrent maps they share (conns, port_owners).                *)
(*                                                                         *)
(* Every action is one step of one task: one operation on shared state (a  *)
(* DashMap operation, a create_listener call, a message on a socket) with  *)
(* the task-local code around it.                                          *)
(***************************************************************************)
EXTENDS Integers, FiniteSets, Sequences, TLC

\* ------------------------------------------------------------------ bounds
MaxPort == 2          \* ports are 0..MaxPort; 0 is "any" in a request
MaxConns == 3         \* control connections accepted in one run
MaxLoad == 4          \* connections accepted plus Hello messages received
MaxVisitors == 1      \* visitor connections accepted in one run

\* -------------------------------------------------------- program constants
MaxAttempts == 150    \* server.rs:111  for _ in 0..150

Ports == 0..MaxPort
RealPorts == 1..MaxPort
ConnIds == 1..MaxConns
Uuids == 1..MaxVisitors
Addrs == {"a1", "a2"}
NoAddr == "none"                      \* stream.peer_addr().ok() = None
NoTask == 0

\* The error strings of create_listener.
ErrOutOfRange == "client port number not in allowed range"
ErrInUse == "port already in use"
ErrDenied == "permission denied"
ErrBind == "failed to bind to port"
ErrNoPort == "failed to find an available port"
ErrAuth == "server handshake failed"

VARIABLES
    port_range,   \* Server.port_range: <<lo, hi>>, inclusive
    auth,         \* Server.auth is Some(_): a secret is configured
    listening,    \* Server::listen is in its accept loop (it has not returned)
    conns,        \* Server.conns: Uuid -> visitor socket (0: no entry)
    port_owners,  \* Server.port_owners: <<port, addr>> -> task handle (0: no entry)
    pc,           \* position of each control connection's handler
    addr,         \* remote_addr of each control connection
    msg,          \* the first client message the handler received
    binds,        \* try_bind calls made by the handler's create_listener call
    host,         \* the host as the handler's create_listener call found it
    lport,        \* listener.local_addr().port() of the connection's listener
    evicted,      \* the handle port_owners.remove returned to the handler (0: none)
    err,          \* the error the handler reports to the client
    out,          \* server messages written to the control stream, in order
    tstate,       \* position of the listener task spawned by the connection
    cancel,       \* JoinHandle::abort was called on the task
    tid,          \* the id the listener task is about to notify
    exp,          \* position of the expiry task of each id
    got,          \* who received Some(socket) from conns.remove(id)
    nextId,       \* number of visitor connections accepted so far
    hellos        \* number of Hello messages received so far

vars == <<port_range, auth, listening, conns, port_owners, pc, addr, msg, binds, host, lport,
          evicted, err, out, tstate, cancel, tid, exp, got, nextId, hellos>>

\* ----------------------------------------------------------------- helpers
PortRanges == {r \in Ports \X Ports : r[1] <= r[2]}
Keys == Ports \X (Addrs \cup {NoAddr})
NoMsg == <<"None">>
ActiveT == {"hb", "accept", "notify"}

\* The task spawned by connection h is in its loop: it owns its listener.
Active(t) == tstate[t] \in ActiveT

\* Connection h owns a bound TcpListener: the handler between create_listener
\* and tokio::spawn, then the listener task until it ends or is dropped.
Listening(h) == pc[h] = "reply" \/ Active(h)

\* The ports the server's own listeners are bound to.
Held == {lport[h] : h \in {h \in ConnIds : Listening(h)}}

\* The host at the time of a bind: the ports other processes are bound to,
\* and whether it refuses binds (no permission for the port, no resources).
Faults == {"none", "denied", "other"}
Hosts == [ext : SUBSET RealPorts, fault : Faults]
NoHost == [ext |-> {}, fault |-> "none"]

\* Faulty variant: sockets bound with SO_REUSEPORT, so that a port held by one
\* of the server's own listeners can be bound again.
InUseReusePort(q, hst) == q \in hst.ext

\* Port q is bound by some socket of the host.
InUse(q, hst) == q \in hst.ext \/ q \in Held

\* Faulty variant: only the upper end of the range is checked.
InRangeUpper(p) == p <= port_range[2]

\* port_range.contains(&port)
InRange(p) == port_range[1] <= p /\ p <= port_range[2]

\* Faulty variant: every bind error is reported as the generic one.
MapErrGeneric(kind) == ErrBind

\* The closure of map_err in try_bind.
MapErr(kind) ==
    CASE kind = "AddrInUse" -> ErrInUse
      [] kind = "PermissionDenied" -> ErrDenied
      [] OTHER -> ErrBind

\* TcpListener::bind((bind_tunnels, q)): the outcomes the host can give.
\* Port 0 asks the host for any free port.
OsBind(q, hst) ==
    IF hst.fault = "other" THEN {[ok |-> FALSE, kind |-> "Other", port |-> 0]}
    ELSE IF q = 0
    THEN IF \A e \in RealPorts : InUse(e, hst)
         THEN {[ok |-> FALSE, kind |-> "AddrInUse", port |-> 0]}
         ELSE {[ok |-> TRUE, kind |-> "", port |-> e] :
                  e \in {e \in RealPorts : ~InUse(e, hst)}}
    ELSE IF hst.fault = "denied"
    THEN {[ok |-> FALSE, kind |-> "PermissionDenied", port |-> 0]}
    ELSE IF InUse(q, hst)
    THEN {[ok |-> FALSE, kind |-> "AddrInUse", port |-> 0]}
    ELSE {[ok |-> TRUE, kind |-> "", port |-> q]}

\* try_bind(port): the bound listener's port, or the mapped error string.
TryBind(q, hst) ==
    {[ok |-> r.ok, port |-> r.port, err |-> IF r.ok THEN "" ELSE MapErr(r.kind)] :
        r \in OsBind(q, hst)}

\* stream.send(m) on connection h: written when the transport takes it.
Send(h, m, sent) == IF sent THEN [out EXCEPT ![h] = Append(@, m)] ELSE out

\* ----------------------------------------------------------------- initial
Init ==
    /\ port_range \in PortRanges
    /\ auth \in BOOLEAN
    /\ listening = TRUE
    /\ conns = [u \in Uuids |-> 0]
    /\ port_owners = [k \in Keys |-> NoTask]
    /\ pc = [h \in ConnIds |-> "idle"]
    /\ addr = [h \in ConnIds |-> NoAddr]
    /\ msg = [h \in ConnIds |-> NoMsg]
    /\ binds = [h \in ConnIds |-> 0]
    /\ host = [h \in ConnIds |-> NoHost]
    /\ lport = [h \in ConnIds |-> 0]
    /\ evicted = [h \in ConnIds |-> NoTask]
    /\ err = [h \in ConnIds |-> ""]
    /\ out = [h \in ConnIds |-> <<>>]
    /\ tstate = [h \in ConnIds |-> "none"]
    /\ cancel = [h \in ConnIds |-> FALSE]
    /\ tid = [h \in ConnIds |-> 0]
    /\ exp = [u \in Uuids |-> "none"]
    /\ got = [u \in Uuids |-> {}]
    /\ nextId = 0
    /\ hellos = 0

hvars == <<pc, addr, msg, binds, host, lport, evicted, err, out>>
tvars == <<tstate, cancel, tid>>
cfg == <<port_range, auth, listening>>
maps == <<conns, port_owners>>
rvars == <<exp, got, nextId, hellos>>

\* ---------------------------------------------------- Server::create_listener
\* let port = fastrand::u16(self.port_range.clone()); try_bind(port): the
\* results of one iteration of the loop, over every port that can be drawn.
Draws(hst) == UNION {TryBind(q, hst) : q \in {q \in Ports : InRange(q)}}

\* Iterations i .. i+n-1 of `for _ in 0..150`, on a host whose state does not
\* change during the call, so that every iteration has the same draws: the
\* iteration the loop is at after them, which is i+n only when every one of
\* them could take a draw that fails. The iterations are run in two halves.
RECURSIVE Iterations(_, _, _)
Iterations(i, n, fails) ==
    IF n = 1
    THEN IF fails THEN i + 1 ELSE i
    ELSE LET first == Iterations(i, n \div 2, fails)
         IN  IF first = i + (n \div 2)
             THEN Iterations(first, n - (n \div 2), fails)
             ELSE first

\* The iteration the whole loop ends at.
LoopEnd == [fails \in BOOLEAN |-> Iterations(0, MaxAttempts, fails)]

\* Faulty variant: after the loop the host is asked for any port it has.
AnyPortFallback(hst) ==
    LET found == {[ok |-> TRUE, port |-> r.port, err |-> "", binds |-> 0] :
                      r \in {r \in Draws(hst) \cup TryBind(0, hst) : r.ok}}
    IN  IF found = {}
        THEN {[ok |-> FALSE, port |-> 0, err |-> ErrNoPort, binds |-> MaxAttempts]}
        ELSE found

\* The branch of port 0: the loop, which returns the first listener a draw
\* gives (its counter ends with it), then Err("failed to find an available
\* port") with every iteration spent.
AnyPort(hst) ==
    LET found == {[ok |-> TRUE, port |-> r.port, err |-> "", binds |-> 0] :
                      r \in {r \in Draws(hst) : r.ok}}
        fails == \E r \in Draws(hst) : ~r.ok
    IN  IF LoopEnd[fails] = MaxAttempts
        THEN found \cup
             {[ok |-> FALSE, port |-> 0, err |-> ErrNoPort, binds |-> MaxAttempts]}
        ELSE found

\* Faulty variant: the requested port is checked against the range and then
\* any port of the range is taken.
CreateListenerAny(port, hst) ==
    IF port > 0 /\ ~InRange(port)
    THEN {[ok |-> FALSE, port |-> 0, err |-> ErrOutOfRange, binds |-> 0]}
    ELSE AnyPort(hst)

\* create_listener(port): the results it can return, with the number of
\* try_bind calls it made.
CreateListener(port, hst) ==
    IF port > 0
    THEN IF ~InRange(port)
         THEN {[ok |-> FALSE, port |-> 0, err |-> ErrOutOfRange, binds |-> 0]}
         ELSE {[ok |-> r.ok, port |-> r.port, err |-> r.err, binds |-> 1] :
                  r \in TryBind(port, hst)}
    ELSE AnyPort(hst)

\* ------------------------------------------------- Server::handle_connection
\* The handler of connection h returns: its locals are dropped.
Return(h) ==
    /\ pc' = [pc EXCEPT ![h] = "closed"]
    /\ msg' = [msg EXCEPT ![h] = NoMsg]
    /\ binds' = [binds EXCEPT ![h] = 0]
    /\ host' = [host EXCEPT ![h] = NoHost]
    /\ evicted' = [evicted EXCEPT ![h] = NoTask]
    /\ err' = [err EXCEPT ![h] = ""]

\* Addresses are used in a fixed order: a run and the run with the addresses
\* renamed differ in nothing else, so while no address is held by a connection
\* or names an entry the next one is "a1".
Fresh(a) ==
    a = "a2" => \/ \E g \in ConnIds : addr[g] # NoAddr
                \/ port_owners # [k \in Keys |-> NoTask]

\* Connections accepted and Hello messages received so far.
Load == Cardinality({g \in ConnIds : pc[g] # "idle"}) + hellos

\* listen: the listener.accept().await? that would have given the next
\* connection gave Err: the error is returned to the caller of listen and the
\* loop is over. The tasks that were spawned stay with the runtime.
ListenAcceptError ==
    /\ listening
    /\ Load < MaxLoad
    /\ \E h \in ConnIds : pc[h] = "idle"
    /\ listening' = FALSE
    /\ UNCHANGED <<port_range, auth, maps, hvars, tvars, rvars>>

\* listen: accept a control connection and spawn its handler; the handler
\* takes peer_addr and enters the handshake when a secret is configured.
Connect(h, a) ==
    /\ listening
    /\ pc[h] = "idle"
    /\ IF h = 1 THEN TRUE ELSE pc[h - 1] # "idle"
    /\ Load < MaxLoad
    /\ Fresh(a)
    /\ pc' = [pc EXCEPT ![h] = IF auth THEN "auth" ELSE "recv"]
    /\ addr' = [addr EXCEPT ![h] = a]
    /\ UNCHANGED <<cfg, maps, msg, binds, host, lport, evicted, err, out, tvars, rvars>>

HandshakeOk(h) ==
    /\ pc[h] = "auth"
    /\ pc' = [pc EXCEPT ![h] = "recv"]
    /\ UNCHANGED <<cfg, maps, addr, msg, binds, host, lport, evicted, err, out, tvars, rvars>>

\* Faulty variant: the Error is sent and the handler goes on to read the
\* client's message.
HandshakeFailContinues(h, sent) ==
    /\ pc[h] = "auth"
    /\ err' = [err EXCEPT ![h] = ErrAuth]
    /\ out' = Send(h, <<"Error", ErrAuth>>, sent)
    /\ pc' = [pc EXCEPT ![h] = "recv"]
    /\ UNCHANGED <<cfg, maps, addr, msg, binds, host, lport, evicted, tvars, rvars>>

\* server_handshake failed: send Error and return.
HandshakeFail(h, sent) ==
    /\ pc[h] = "auth"
    /\ err' = [err EXCEPT ![h] = ErrAuth]
    /\ out' = Send(h, <<"Error", ErrAuth>>, sent)
    /\ pc' = [pc EXCEPT ![h] = "failed"]
    /\ addr' = [addr EXCEPT ![h] = NoAddr]
    /\ UNCHANGED <<cfg, maps, msg, binds, host, lport, evicted, tvars, rvars>>

\* recv_timeout gave Authenticate: return.
RecvAuthenticate(h) ==
    /\ pc[h] = "recv"
    /\ Return(h)
    /\ addr' = [addr EXCEPT ![h] = NoAddr]
    /\ UNCHANGED <<cfg, maps, lport, out, tvars, rvars>>

\* recv_timeout gave None (end of stream) or an error (timeout, bad frame).
RecvNone(h) ==
    /\ pc[h] = "recv"
    /\ Return(h)
    /\ addr' = [addr EXCEPT ![h] = NoAddr]
    /\ UNCHANGED <<cfg, maps, lport, out, tvars, rvars>>

\* Faulty variant: a request for any port evicts a tunnel of the address.
FoundAnyPort(h, p) ==
    LET ts == {port_owners[k] : k \in {k \in Keys : k[2] = addr[h]}} \ {NoTask}
    IN  IF addr[h] = NoAddr THEN NoTask
        ELSE IF p > 0 THEN port_owners[<<p, addr[h]>>]
        ELSE IF ts = {} THEN NoTask ELSE CHOOSE t \in ts : TRUE

\* Faulty variant: port_owners keyed by the port alone.
FoundAnyAddr(h, p) ==
    LET ts == {port_owners[k] : k \in {k \in Keys : k[1] = p}} \ {NoTask}
    IN  IF ts = {} THEN NoTask ELSE CHOOSE t \in ts : TRUE

\* The handle port_owners.remove(&(port, addr)) returns to connection h.
Found(h, p) == IF addr[h] = NoAddr THEN NoTask ELSE port_owners[<<p, addr[h]>>]

\* Faulty variant: the removed handle is dropped without abort().
AbortForgotten(t) == cancel

\* handle.abort(): a task that is still in its loop is marked for cancellation.
Abort(t) == IF t # NoTask /\ Active(t) THEN [cancel EXCEPT ![t] = TRUE] ELSE cancel

\* recv_timeout gave Hello(p): remove the entry under (p, remote_addr) and
\* abort its task, if there is one.
RecvHello(h, p) ==
    /\ pc[h] = "recv"
    /\ Load < MaxLoad
    /\ hellos' = hellos + 1
    /\ msg' = [msg EXCEPT ![h] = <<"Hello", p>>]
    /\ evicted' = [evicted EXCEPT ![h] = Found(h, p)]
    /\ port_owners' = IF Found(h, p) # NoTask
                      THEN [port_owners EXCEPT ![<<p, addr[h]>>] = NoTask]
                      ELSE port_owners
    /\ cancel' = Abort(Found(h, p))
    /\ pc' = [pc EXCEPT ![h] = "alloc"]
    /\ UNCHANGED <<cfg, conns, addr, binds, host, lport, err, out, tstate, tid,
                   exp, got, nextId>>

Requested(h) == msg[h][2]

\* The ports a create_listener(port) call can try to bind.
Tried(port) ==
    IF port > 0
    THEN {q \in RealPorts : q = port /\ InRange(q)}
    ELSE IF InRange(0) THEN RealPorts ELSE {q \in RealPorts : InRange(q)}

\* Of the host only what the call can observe is told: the ports of other
\* processes among those it tries, and none of them when the host refuses
\* every bind the call makes.
Observed(port, hst) ==
    /\ hst.ext \cap Held = {}
    /\ hst.ext \subseteq Tried(port)
    /\ Tried(port) = {} => hst.fault = "none"
    /\ hst.fault = "other" => hst.ext = {}
    /\ hst.fault = "denied" /\ ~(port = 0 /\ InRange(0)) => hst.ext = {}

\* Faulty variant: when create_listener fails the evicted handle is put back.
AllocateRollback(h, hst) ==
    /\ pc[h] = "alloc"
    /\ Observed(Requested(h), hst)
    /\ host' = [host EXCEPT ![h] = hst]
    /\ \E r \in CreateListener(Requested(h), hst) :
         /\ binds' = [binds EXCEPT ![h] = r.binds]
         /\ lport' = [lport EXCEPT ![h] = r.port]
         /\ err' = [err EXCEPT ![h] = r.err]
         /\ IF r.ok
            THEN /\ pc' = [pc EXCEPT ![h] = "reply"]
                 /\ UNCHANGED <<out, addr, msg, evicted, port_owners>>
            ELSE /\ pc' = [pc EXCEPT ![h] = "failed"]
                 /\ \E sent \in BOOLEAN : out' = Send(h, <<"Error", r.err>>, sent)
                 /\ addr' = [addr EXCEPT ![h] = NoAddr]
                 /\ msg' = [msg EXCEPT ![h] = NoMsg]
                 /\ evicted' = [evicted EXCEPT ![h] = NoTask]
                 /\ port_owners' =
                       IF evicted[h] = NoTask THEN port_owners
                       ELSE [port_owners EXCEPT ![<<Requested(h), addr[h]>>] = evicted[h]]
    /\ UNCHANGED <<cfg, conns, tvars, rvars>>

\* self.create_listener(port).await on a host hst: Ok(listener), or Err(err),
\* which is sent as Error(err) before the handler's locals are dropped.
Allocate(h, hst) ==
    /\ pc[h] = "alloc"
    /\ Observed(Requested(h), hst)
    /\ host' = [host EXCEPT ![h] = hst]
    /\ \E r \in CreateListener(Requested(h), hst) :
         /\ binds' = [binds EXCEPT ![h] = r.binds]
         /\ lport' = [lport EXCEPT ![h] = r.port]
         /\ err' = [err EXCEPT ![h] = r.err]
         /\ IF r.ok
            THEN /\ pc' = [pc EXCEPT ![h] = "reply"]
                 /\ UNCHANGED <<out, addr, msg, evicted>>
            ELSE /\ pc' = [pc EXCEPT ![h] = "failed"]
                 /\ \E sent \in BOOLEAN : out' = Send(h, <<"Error", r.err>>, sent)
                 /\ addr' = [addr EXCEPT ![h] = NoAddr]
                 /\ msg' = [msg EXCEPT ![h] = NoMsg]
                 /\ evicted' = [evicted EXCEPT ![h] = NoTask]
    /\ UNCHANGED <<cfg, maps, tvars, rvars>>

\* After the Error was sent (or the send failed) the handler returns and the
\* stream is dropped.
Close(h) ==
    /\ pc[h] = "failed"
    /\ Return(h)
    /\ out' = [out EXCEPT ![h] = <<>>]
    /\ UNCHANGED <<cfg, maps, addr, lport, tvars, rvars>>

\* stream.send(Hello(port)) with the listener's own port, tokio::spawn of the
\* listener task, then port_owners.insert((port, addr)); a failed send returns
\* and drops the listener.
Establish(h, sent) ==
    /\ pc[h] = "reply"
    /\ Return(h)
    /\ IF sent
       THEN /\ out' = Send(h, <<"Hello", lport[h]>>, sent)
            /\ tstate' = [tstate EXCEPT ![h] = "hb"]
            /\ port_owners' = IF addr[h] = NoAddr
                              THEN port_owners
                              ELSE [port_owners EXCEPT ![<<lport[h], addr[h]>>] = h]
            /\ UNCHANGED <<lport, addr>>
       ELSE /\ lport' = [lport EXCEPT ![h] = 0]
            /\ addr' = [addr EXCEPT ![h] = NoAddr]
            /\ UNCHANGED <<out, tstate, port_owners>>
    /\ UNCHANGED <<cfg, conns, cancel, tid, rvars>>

\* Faulty variant: the entry is looked up and left in the map.
RemoveKeeps(id) == conns

\* conns.remove(&id): the map without the entry of id.
Remove(id) == [conns EXCEPT ![id] = 0]

\* recv_timeout gave Accept(id): conns.remove(&id); relay when it is there.
RecvAccept(h, id) ==
    /\ pc[h] = "recv"
    /\ IF conns[id] # 0
       THEN /\ conns' = Remove(id)
            /\ got' = [got EXCEPT ![id] = @ \cup {h}]
            /\ pc' = [pc EXCEPT ![h] = "relay"]
            /\ msg' = [msg EXCEPT ![h] = <<"Accept", id>>]
            /\ UNCHANGED <<binds, host, evicted, err, addr>>
       ELSE /\ Return(h)
            /\ addr' = [addr EXCEPT ![h] = NoAddr]
            /\ UNCHANGED <<conns, got>>
    /\ UNCHANGED <<cfg, port_owners, lport, out, tvars, exp, nextId, hellos>>

\* Faulty variant: after the relay the handler reads the next message.
RelayEndReads(h) ==
    /\ pc[h] = "relay"
    /\ pc' = [pc EXCEPT ![h] = "recv"]
    /\ msg' = [msg EXCEPT ![h] = NoMsg]
    /\ UNCHANGED <<cfg, maps, addr, binds, host, lport, evicted, err, out, tvars, rvars>>

\* write_all and proxy end: one side closed or failed.
RelayEnd(h) ==
    /\ pc[h] = "relay"
    /\ Return(h)
    /\ addr' = [addr EXCEPT ![h] = NoAddr]
    /\ UNCHANGED <<cfg, maps, lport, out, tvars, rvars>>

\* ------------------------------------------------------------ listener task
\* The task of connection t ends: its listener and its stream are dropped.
\* A handle left in port_owners keeps naming it.
TaskEnds(t) ==
    /\ tstate' = [tstate EXCEPT ![t] = "ended"]
    /\ cancel' = [cancel EXCEPT ![t] = FALSE]
    /\ tid' = [tid EXCEPT ![t] = 0]
    /\ lport' = [lport EXCEPT ![t] = 0]
    /\ addr' = [addr EXCEPT ![t] = NoAddr]
    /\ out' = [out EXCEPT ![t] = <<>>]

\* Faulty variant: a task that leaves its loop takes its entry out of
\* port_owners.
HeartbeatCleans(t, sent) ==
    /\ tstate[t] = "hb"
    /\ IF sent
       THEN /\ tstate' = [tstate EXCEPT ![t] = "accept"]
            /\ UNCHANGED <<cancel, tid, lport, addr, out, port_owners>>
       ELSE /\ TaskEnds(t)
            /\ port_owners' = [k \in Keys |->
                                 IF port_owners[k] = t THEN NoTask ELSE port_owners[k]]
    /\ UNCHANGED <<cfg, conns, pc, msg, binds, host, evicted, err, rvars>>

\* stream.send(Heartbeat): a failed send breaks the loop.
Heartbeat(t, sent) ==
    /\ tstate[t] = "hb"
    /\ IF sent
       THEN /\ tstate' = [tstate EXCEPT ![t] = "accept"]
            /\ UNCHANGED <<cancel, tid, lport, addr, out>>
       ELSE TaskEnds(t)
    /\ UNCHANGED <<cfg, maps, pc, msg, binds, host, evicted, err, rvars>>

\* timeout(TIMEOUT, listener.accept()) elapsed.
AcceptTimeout(t) ==
    /\ tstate[t] = "accept"
    /\ tstate' = [tstate EXCEPT ![t] = "hb"]
    /\ UNCHANGED <<cfg, maps, hvars, cancel, tid, rvars>>

\* Faulty variant: the visitor is announced without having been inserted.
AcceptVisitorNoInsert(t) ==
    /\ tstate[t] = "accept"
    /\ nextId < MaxVisitors
    /\ nextId' = nextId + 1
    /\ exp' = [exp EXCEPT ![nextId + 1] = "sleeping"]
    /\ tid' = [tid EXCEPT ![t] = nextId + 1]
    /\ tstate' = [tstate EXCEPT ![t] = "notify"]
    /\ UNCHANGED <<cfg, maps, hvars, cancel, got, hellos>>

\* A visitor was accepted: insert it under a fresh id and spawn its expiry.
AcceptVisitor(t) ==
    /\ tstate[t] = "accept"
    /\ nextId < MaxVisitors
    /\ nextId' = nextId + 1
    /\ conns' = [conns EXCEPT ![nextId + 1] = t]
    /\ exp' = [exp EXCEPT ![nextId + 1] = "sleeping"]
    /\ tid' = [tid EXCEPT ![t] = nextId + 1]
    /\ tstate' = [tstate EXCEPT ![t] = "notify"]
    /\ UNCHANGED <<cfg, port_owners, hvars, cancel, got, hellos>>

\* listener.accept() failed: result.unwrap() panics and the task ends.
AcceptError(t) ==
    /\ tstate[t] = "accept"
    /\ TaskEnds(t)
    /\ UNCHANGED <<cfg, maps, pc, msg, binds, host, evicted, err, rvars>>

\* Faulty variant: after the notification the task waits for the next
\* visitor at once.
NotifyThenAccept(t, sent) ==
    /\ tstate[t] = "notify"
    /\ out' = Send(t, <<"Connection", tid[t]>>, sent)
    /\ tid' = [tid EXCEPT ![t] = 0]
    /\ tstate' = [tstate EXCEPT ![t] = "accept"]
    /\ UNCHANGED <<cfg, maps, pc, addr, msg, binds, host, lport, evicted, err, cancel, rvars>>

\* Faulty variant: a failed notification breaks the loop, as a failed
\* heartbeat does.
NotifyBreaks(t, sent) ==
    /\ tstate[t] = "notify"
    /\ IF sent
       THEN /\ out' = Send(t, <<"Connection", tid[t]>>, sent)
            /\ tid' = [tid EXCEPT ![t] = 0]
            /\ tstate' = [tstate EXCEPT ![t] = "hb"]
            /\ UNCHANGED <<cancel, lport, addr>>
       ELSE TaskEnds(t)
    /\ UNCHANGED <<cfg, maps, pc, msg, binds, host, evicted, err, rvars>>

\* let _ = stream.send(Connection(id)): the result is ignored.
Notify(t, sent) ==
    /\ tstate[t] = "notify"
    /\ out' = Send(t, <<"Connection", tid[t]>>, sent)
    /\ tid' = [tid EXCEPT ![t] = 0]
    /\ tstate' = [tstate EXCEPT ![t] = "hb"]
    /\ UNCHANGED <<cfg, maps, pc, addr, msg, binds, host, lport, evicted, err, cancel, rvars>>

\* Faulty variant: a dropped task takes the visitors it accepted with it.
DropCleans(t) ==
    /\ cancel[t]
    /\ Active(t)
    /\ TaskEnds(t)
    /\ conns' = [id \in Uuids |-> IF conns[id] = t THEN 0 ELSE conns[id]]
    /\ UNCHANGED <<cfg, port_owners, pc, msg, binds, host, evicted, err, rvars>>

\* The runtime drops a task that was aborted: its listener is closed.
Drop(t) ==
    /\ cancel[t]
    /\ Active(t)
    /\ TaskEnds(t)
    /\ UNCHANGED <<cfg, maps, pc, msg, binds, host, evicted, err, rvars>>

\* -------------------------------------------------------------- expiry task
\* Faulty variant: the expiry task ends without removing the entry.
ExpireForgets(id) ==
    /\ exp[id] = "sleeping"
    /\ exp' = [exp EXCEPT ![id] = "done"]
    /\ UNCHANGED <<cfg, maps, hvars, tvars, got, nextId, hellos>>

\* sleep(10 s) is over: conns2.remove(&id).
Expire(id) ==
    /\ exp[id] = "sleeping"
    /\ exp' = [exp EXCEPT ![id] = "done"]
    /\ IF conns[id] # 0
       THEN /\ conns' = Remove(id)
            /\ got' = [got EXCEPT ![id] = @ \cup {0}]
       ELSE UNCHANGED <<conns, got>>
    /\ UNCHANGED <<cfg, port_owners, hvars, tvars, nextId, hellos>>

\* ------------------------------------------------------------ specification
Next ==
    \/ \E h \in ConnIds, a \in Addrs \cup {NoAddr} : Connect(h, a)
    \/ ListenAcceptError
    \/ \E h \in ConnIds : HandshakeOk(h)
    \/ \E h \in ConnIds, sent \in BOOLEAN : HandshakeFail(h, sent)
    \/ \E h \in ConnIds : RecvAuthenticate(h)
    \/ \E h \in ConnIds : RecvNone(h)
    \/ \E h \in ConnIds, p \in Ports : RecvHello(h, p)
    \/ \E h \in ConnIds, hst \in Hosts : Allocate(h, hst)
    \/ \E h \in ConnIds : Close(h)
    \/ \E h \in ConnIds, sent \in BOOLEAN : Establish(h, sent)
    \/ \E h \in ConnIds, id \in Uuids : RecvAccept(h, id)
    \/ \E h \in ConnIds : RelayEnd(h)
    \/ \E t \in ConnIds, sent \in BOOLEAN : Heartbeat(t, sent)
    \/ \E t \in ConnIds : AcceptTimeout(t)
    \/ \E t \in ConnIds : AcceptVisitor(t)
    \/ \E t \in ConnIds : AcceptError(t)
    \/ \E t \in ConnIds, sent \in BOOLEAN : Notify(t, sent)
    \/ \E t \in ConnIds : Drop(t)
    \/ \E id \in Uuids : Expire(id)

Spec == Init /\ [][Next]_vars

\* The runtime's timer wakes every expiry task: its sleep ends.
SpecLive == Spec /\ \A id \in Uuids : WF_vars(Expire(id))

\* A step of the listener task of connection t.
TaskStep(t) ==
    \/ \E sent \in BOOLEAN : Heartbeat(t, sent)
    \/ AcceptTimeout(t)
    \/ AcceptVisitor(t)
    \/ AcceptError(t)
    \/ \E sent \in BOOLEAN : Notify(t, sent)
    \/ Drop(t)

\* A server with a secret and every real port in its range.
LoopInit == Init /\ auth /\ port_range = <<1, MaxPort>>

\* The runtime polls every listener task: a send completes or fails, and the
\* wait for a visitor ends with the visitor or after TIMEOUT (500 ms).
SpecLoop == LoopInit /\ [][Next]_vars /\ \A t \in ConnIds : WF_vars(TaskStep(t))

\* ------------------------------------------------------------------ claims
\* A listener task that has neither finished nor been aborted.
Serving(t) == Active(t) /\ ~cancel[t]

\* C1: in every reachable state, for every key (port, client address) at most
\* one listener task that has neither finished nor been aborted serves that
\* port for that address.
C1_OneListenerPerKey ==
    \A t1, t2 \in ConnIds :
        (Serving(t1) /\ Serving(t2) /\ lport[t1] = lport[t2] /\ addr[t1] = addr[t2])
            => t1 = t2

\* Two listener tasks of one client address serve at once (on two ports), an
\* earlier Hello of that address having been followed by a later one.
C1_Witness ==
    \E t1, t2 \in ConnIds :
        /\ t1 # t2 /\ Serving(t1) /\ Serving(t2)
        /\ addr[t1] = addr[t2] /\ addr[t1] # NoAddr
        /\ port_owners[<<lport[t1], addr[t1]>>] = t1
        /\ port_owners[<<lport[t2], addr[t2]>>] = t2

\* C2: a Hello(p), p nonzero, from the address that owns the entry (p, address):
\* the old task is out of port_owners and aborted from the moment the handler
\* goes on to create_listener, it has released the port (it has ended) when
\* the new listener is bound, which is before the new task is spawned and
\* installed, and no two listeners are ever bound to one port.
C2_EvictBeforeInstall ==
    /\ \A h \in ConnIds : evicted[h] # NoTask =>
          /\ pc[h] \in {"alloc", "reply"}
          /\ Requested(h) > 0
          /\ \A k \in Keys : port_owners[k] # evicted[h]
          /\ tstate[evicted[h]] = "ended" \/ cancel[evicted[h]]
          /\ pc[h] = "reply" =>
                /\ lport[h] = Requested(h)
                /\ tstate[evicted[h]] = "ended"
                /\ tstate[h] = "none"
    /\ \A g, h \in ConnIds :
          (Listening(g) /\ Listening(h) /\ lport[g] = lport[h]) => g = h

\* The new listener of a reconnecting client is bound, and not yet spawned.
C2_Witness ==
    \E h \in ConnIds :
        /\ pc[h] = "reply" /\ evicted[h] # NoTask
        /\ lport[h] = Requested(h) /\ addr[h] # NoAddr

\* A step of the handler of connection h in its Hello branch.
HelloStep(h) ==
    \/ pc[h] = "recv" /\ pc'[h] = "alloc"
    \/ pc[h] \in {"alloc", "reply"} /\ pc'[h] # pc[h]

\* C3: no step of the Hello branch of a connection from address B changes an
\* entry of port_owners under another address A, or aborts, ends or otherwise
\* changes the task it names.
C3_OtherAddressUntouched ==
    [][\A h \in ConnIds : HelloStep(h) =>
          \A k \in Keys : k[2] # addr[h] =>
              /\ port_owners'[k] = port_owners[k]
              /\ port_owners[k] # NoTask =>
                    /\ cancel'[port_owners[k]] = cancel[port_owners[k]]
                    /\ tstate'[port_owners[k]] = tstate[port_owners[k]]
                    /\ lport'[port_owners[k]] = lport[port_owners[k]]]_vars

\* A Hello(p) has arrived from an address other than the one whose task serves
\* p and is registered under it.
C3_Witness ==
    \E h, t \in ConnIds, p \in RealPorts :
        /\ pc[h] = "alloc" /\ msg[h] = <<"Hello", p>> /\ addr[h] # NoAddr
        /\ Serving(t) /\ lport[t] = p /\ addr[t] # addr[h]
        /\ port_owners[<<p, addr[t]>>] = t

\* C4: of the expiry task and the Accept(id) handlers at most one obtains the
\* visitor socket of id from conns.remove; a handler relays only the socket it
\* obtained, and an id whose socket was obtained has no entry.
C4_ExclusiveRemoval ==
    /\ \A id \in Uuids :
          /\ Cardinality(got[id]) <= 1
          /\ got[id] # {} => conns[id] = 0
    /\ \A h \in ConnIds : pc[h] = "relay" => got[msg[h][2]] = {h}

\* One handler relays the visitor of id while the expiry task of id and the
\* handler of another connection, which may receive Accept(id), are still to
\* run.
C4_Witness ==
    \E id \in Uuids, h, g \in ConnIds :
        /\ g # h /\ pc[h] = "relay" /\ msg[h] = <<"Accept", id>>
        /\ pc[g] = "recv" /\ exp[id] = "sleeping"

\* C5: an entry of the pending registry does not stay for ever: it is claimed
\* or its expiry task removes it; once the expiry task has run there is no
\* entry, and after the expiry task removed it no handler relays it.
C5_ExpiryRemoves ==
    /\ \A id \in Uuids : (conns[id] # 0) ~> (conns[id] = 0)
    /\ [](\A id \in Uuids : exp[id] = "done" => conns[id] = 0)
    /\ [](\A id \in Uuids : 0 \in got[id] =>
              \A h \in ConnIds : ~(pc[h] = "relay" /\ msg[h] = <<"Accept", id>>))

\* The expiry task removed an unclaimed visitor, and a connection is waiting
\* for its first message, which may be Accept(id).
C5_Witness ==
    \E id \in Uuids, h \in ConnIds :
        got[id] = {0} /\ exp[id] = "done" /\ conns[id] = 0 /\ pc[h] = "recv"

\* The listeners, tasks and registry entries of the server.
TunnelState == <<port_owners, conns, tstate, cancel, lport>>

\* C6: create_listener(p) with p nonzero and outside port_range fails with the
\* out-of-range error without a bind attempt; the handler binds no socket,
\* spawns no task and changes no entry, then and when it returns.
C6_OutOfRange ==
    [][\A h \in ConnIds :
          /\ ( /\ pc[h] = "alloc" /\ pc'[h] # "alloc"
               /\ Requested(h) > 0
               /\ Requested(h) < port_range[1] \/ Requested(h) > port_range[2] )
             => /\ pc'[h] = "failed"
                /\ err'[h] = ErrOutOfRange
                /\ binds'[h] = 0
                /\ Held' = Held
                /\ TunnelState' = TunnelState
          /\ (pc[h] = "failed" /\ err[h] = ErrOutOfRange /\ pc'[h] # "failed")
             => pc'[h] = "closed" /\ TunnelState' = TunnelState]_vars

\* A Hello with a port above or below the range was refused.
C6_Witness ==
    \E h \in ConnIds :
        /\ pc[h] = "failed" /\ err[h] = ErrOutOfRange /\ binds[h] = 0
        /\ out[h] = <<<<"Error", ErrOutOfRange>>>>

\* C7: create_listener(p) with p nonzero, inside port_range and free on the
\* host (held by no listener of the server and by no other process, and the
\* host refuses no bind) makes one bind attempt and returns a listener on p;
\* the Hello the handler then sends carries p.
C7_FreePortBound ==
    [][\A h \in ConnIds :
          /\ ( /\ pc[h] = "alloc" /\ pc'[h] # "alloc"
               /\ Requested(h) > 0
               /\ port_range[1] <= Requested(h) /\ Requested(h) <= port_range[2]
               /\ Requested(h) \notin Held \cup host'[h].ext
               /\ host'[h].fault = "none" )
             => /\ pc'[h] = "reply"
                /\ lport'[h] = Requested(h)
                /\ binds'[h] = 1
          /\ (pc[h] = "reply" /\ pc'[h] # "reply" /\ Requested(h) > 0)
             => /\ out'[h] \in {<<>>, <<<<"Hello", Requested(h)>>>>}
                /\ tstate'[h] # "none" => out'[h] # <<>>]_vars

\* The listener of a requested port is bound by the one attempt made.
C7_Witness ==
    \E h \in ConnIds :
        /\ pc[h] = "reply" /\ Requested(h) > 0
        /\ lport[h] = Requested(h) /\ binds[h] = 1

\* Port q is held by a listener of the server or by another process of the
\* host; port 0 stands for the ports the host hands out.
Occupied(q, hst) ==
    IF q = 0 THEN RealPorts \subseteq Held \cup hst.ext ELSE q \in Held \cup hst.ext

\* C8: create_listener(0) with every port of port_range occupied returns the
\* no-port-available error after at most 150 bind attempts, and no listener.
C8_NoPortAvailable ==
    [][\A h \in ConnIds :
          ( /\ pc[h] = "alloc" /\ pc'[h] # "alloc"
            /\ Requested(h) = 0
            /\ \A q \in port_range[1]..port_range[2] : Occupied(q, host'[h]) )
          => /\ pc'[h] = "failed"
             /\ err'[h] = ErrNoPort
             /\ binds'[h] <= 150
             /\ lport'[h] = 0
             /\ Held' = Held]_vars

\* Every attempt of the loop found its port held by another process.
C8_Witness ==
    \E h \in ConnIds :
        /\ pc[h] = "failed" /\ err[h] = ErrNoPort /\ binds[h] = 150
        /\ host[h].fault = "none" /\ host[h].ext # {}

\* C9: the listener a Hello(0) request obtains is on a port of port_range.
C9_AssignedInRange ==
    \A h \in ConnIds :
        (pc[h] = "reply" /\ msg[h] = <<"Hello", 0>>)
            => port_range[1] <= lport[h] /\ lport[h] <= port_range[2]

\* C10: a failed handshake sends Error (when the stream takes it) and the
\* handler returns without reading a message: it binds and spawns nothing and
\* changes no entry of port_owners or conns, then and when it returns.
C10_AuthFailure ==
    [][\A h \in ConnIds :
          /\ (pc[h] = "auth" /\ err'[h] = ErrAuth)
             => /\ auth
                /\ pc'[h] = "failed"
                /\ msg'[h] = NoMsg
                /\ out'[h] \in {<<>>, <<<<"Error", ErrAuth>>>>}
                /\ Held' = Held
                /\ TunnelState' = TunnelState
          /\ (err[h] = ErrAuth /\ pc'[h] # pc[h])
             => /\ pc[h] = "failed" /\ pc'[h] = "closed"
                /\ TunnelState' = TunnelState]_vars

\* The handshake of a connection failed and the Error was written.
C10_Witness ==
    \E h \in ConnIds :
        /\ auth /\ pc[h] = "failed" /\ err[h] = ErrAuth
        /\ out[h] = <<<<"Error", ErrAuth>>>>

\* C11: when create_listener returns an error the handler writes one Error
\* with that error's text (when the stream takes it) and nothing else, binds
\* and spawns nothing, changes no entry, and returns; the text names the
\* cause: "port already in use" for a port another process holds.
C11_AllocationError ==
    [][\A h \in ConnIds :
          /\ (pc[h] = "alloc" /\ pc'[h] = "failed")
             => /\ err'[h] \in {"client port number not in allowed range",
                                "port already in use", "permission denied",
                                "failed to bind to port",
                                "failed to find an available port"}
                /\ out'[h] \in {<<>>, <<<<"Error", err'[h]>>>>}
                /\ ( /\ Requested(h) > 0
                     /\ port_range[1] <= Requested(h) /\ Requested(h) <= port_range[2] )
                   => err'[h] = CASE host'[h].fault = "denied" -> "permission denied"
                                  [] host'[h].fault = "other" -> "failed to bind to port"
                                  [] OTHER -> "port already in use"
                /\ Requested(h) = 0 => err'[h] = "failed to find an available port"
                /\ Held' = Held
                /\ TunnelState' = TunnelState
          /\ (pc[h] = "failed" /\ err[h] # ErrAuth /\ pc'[h] # "failed")
             => pc'[h] = "closed" /\ TunnelState' = TunnelState]_vars

\* A Hello for a port that another process holds was answered with Error.
C11_Witness ==
    \E h \in ConnIds :
        /\ pc[h] = "failed" /\ err[h] = "port already in use"
        /\ host[h].ext # {} /\ host[h].fault = "none" /\ binds[h] = 1
        /\ out[h] = <<<<"Error", "port already in use">>>>

\* C12: once the control port is bound, listen stays in its accept loop.
C12_ListenNeverReturns == listening

\* A step of the handler of connection h in its Accept branch.
AcceptStep(h) ==
    \/ pc[h] = "recv" /\ pc'[h] = "relay"
    \/ pc[h] = "relay" /\ pc'[h] # "relay"

\* C13: a handler reads one message after the handshake and never reads
\* again; what it read fixes what it does: the Hello branch (and the task it
\* spawns) removes nothing from conns, the Accept branch binds nothing and
\* leaves port_owners and the listener tasks alone, and a handler that
\* returns on its first message (Authenticate, end of stream, unknown id)
\* changes nothing.
C13_RoleFixed ==
    [][\A h \in ConnIds :
          /\ (pc[h] = "recv" /\ pc'[h] # "recv")
             => /\ pc'[h] \in {"alloc", "relay", "closed"}
                /\ pc'[h] = "closed" => (TunnelState' = TunnelState /\ Held' = Held)
          /\ pc[h] \notin {"idle", "auth", "recv"} => pc'[h] # "recv"
          /\ HelloStep(h) => (conns' = conns /\ got' = got)
          /\ tstate'[h] # tstate[h]
             => \A id \in Uuids : conns[id] # 0 => conns'[id] = conns[id]
          /\ AcceptStep(h)
             => /\ port_owners' = port_owners
                /\ Held' = Held
                /\ tstate' = tstate /\ cancel' = cancel
                /\ binds'[h] = 0 /\ lport'[h] = 0]_vars

\* One connection has become a tunnel, with its task and its entry, and
\* another relays a visitor.
C13_Witness ==
    \E h, t \in ConnIds :
        /\ pc[h] = "relay" /\ got[msg[h][2]] = {h}
        /\ pc[t] = "closed" /\ Active(t)
        /\ port_owners[<<lport[t], addr[t]>>] = t

\* C14: a Heartbeat send that fails ends the listener task and its listener
\* is dropped; a Connection(id) send that fails does not: the task goes on
\* to its next heartbeat with its listener, and the registry keeps the
\* visitor. Only an abort ends a task that is about to notify.
C14_SendFailures ==
    [][\A t \in ConnIds :
          /\ Heartbeat(t, FALSE)
             => (tstate'[t] = "ended" /\ lport'[t] = 0 /\ ~Listening(t)')
          /\ Notify(t, FALSE)
             => /\ tstate'[t] = "hb"
                /\ out'[t] = out[t]
                /\ lport'[t] = lport[t] /\ Listening(t)'
                /\ conns' = conns /\ exp' = exp
          /\ (tstate[t] = "notify" /\ tstate'[t] # "notify")
             => /\ tstate'[t] = "hb" \/ (cancel[t] /\ tstate'[t] = "ended")
                /\ conns' = conns]_vars

\* The task accepted a visitor and is back at its heartbeat, and the
\* Connection message was not written; the visitor is in the registry.
C14_Witness ==
    \E t \in ConnIds, id \in Uuids :
        /\ tstate[t] = "hb" /\ conns[id] = t /\ exp[id] = "sleeping"
        /\ out[t] = <<<<"Hello", lport[t]>>>>

C16_AbortKeepsRegistry ==
    /\ [][\A t \in ConnIds :
            ( \/ ~cancel[t] /\ cancel'[t]
              \/ cancel[t] /\ Active(t) /\ tstate'[t] = "ended" )
            => (conns' = conns /\ exp' = exp /\ got' = got)]_vars
    /\ \A id \in Uuids :
          (conns[id] # 0 /\ tstate[conns[id]] = "ended") ~> (conns[id] = 0)
    /\ [](\A id \in Uuids : conns[id] # 0 => exp[id] = "sleeping")

\* A reconnect aborted the task of a tunnel, the task has ended, and the
\* visitor it accepted is still in the registry.
C16_Witness ==
    \E h, t \in ConnIds, id \in Uuids :
        evicted[h] = t /\ tstate[t] = "ended" /\ conns[id] = t

\* Connection(id) was written to the control stream of task t.
Announced(t, id) == \E i \in 1..Len(out[t]) : out[t][i] = <<"Connection", id>>

\* C17: from the moment a task is about to send Connection(id), and after it
\* has sent it, the registry holds the visitor of id that the task accepted,
\* until its expiry task has run or a handler has claimed it; the handler
\* that claims it is the one that relays it.
C17_InsertBeforeNotify ==
    /\ \A t \in ConnIds, id \in Uuids :
          ( /\ (tstate[t] = "notify" /\ tid[t] = id) \/ Announced(t, id)
            /\ exp[id] = "sleeping" /\ got[id] = {} )
          => conns[id] = t
    /\ \A h \in ConnIds, id \in Uuids :
          h \in got[id] => (pc[h] = "relay" => msg[h] = <<"Accept", id>>)

\* Connection(id) was sent, the expiry task of id still sleeps, and a fresh
\* control connection waits for its first message.
C17_Witness ==
    \E t, h \in ConnIds, id \in Uuids :
        /\ Announced(t, id) /\ conns[id] = t /\ exp[id] = "sleeping"
        /\ h # t /\ pc[h] = "recv"

\* C18: the end of a listener task leaves port_owners as it is, and an entry
\* changes only by a Hello from its address: the eviction of a Hello for its
\* port removes it, or the insert of a handler whose listener is on its port
\* overwrites it. Without such a Hello the entry of a finished task stays.
C18_StaleEntryStays ==
    [][/\ \A t \in ConnIds :
            (Active(t) /\ tstate'[t] = "ended") => port_owners' = port_owners
       /\ \A k \in Keys :
            (port_owners[k] # NoTask /\ port_owners'[k] # port_owners[k])
            => \E h \in ConnIds :
                  /\ addr[h] = k[2]
                  /\ \/ /\ pc[h] = "recv" /\ pc'[h] = "alloc"
                        /\ msg'[h] = <<"Hello", k[1]>>
                        /\ port_owners'[k] = NoTask
                     \/ /\ pc[h] = "reply" /\ pc'[h] = "closed"
                        /\ lport[h] = k[1]
                        /\ port_owners'[k] = h]_vars

\* An entry names a task that has ended, and no handler is in its Hello branch.
C18_Witness ==
    \E k \in Keys :
        /\ port_owners[k] # NoTask /\ tstate[port_owners[k]] = "ended"
        /\ \A h \in ConnIds : pc[h] \in {"idle", "closed"}

\* C19: no entry is stored under port 0 and no listener is on port 0; the
\* handler of a Hello(0) finds no entry, removes none and aborts no task, and
\* when it installs its listener every tunnel that was serving goes on
\* serving, those of its own address on other ports than the new one.
C19_HelloAnyKeepsOld ==
    /\ [](\A k \in Keys : k[1] = 0 => port_owners[k] = NoTask)
    /\ [](\A h \in ConnIds : Listening(h) => lport[h] # 0)
    /\ [][\A h \in ConnIds :
            /\ (pc[h] = "recv" /\ pc'[h] = "alloc" /\ msg'[h] = <<"Hello", 0>>)
               => /\ port_owners' = port_owners
                  /\ cancel' = cancel
                  /\ evicted'[h] = NoTask
            /\ (pc[h] \in {"alloc", "reply"} /\ pc'[h] # pc[h] /\ msg[h] = <<"Hello", 0>>)
               => /\ cancel' = cancel
                  /\ \A t \in ConnIds \ {h} :
                        /\ tstate'[t] = tstate[t]
                        /\ Serving(t) => lport'[t] = lport[t] /\ lport[t] # lport'[h]
                  /\ \A k \in Keys :
                        port_owners'[k] # port_owners[k]
                        => /\ k = <<lport[h], addr[h]>> /\ port_owners'[k] = h
                           /\ port_owners[k] # NoTask => ~Active(port_owners[k])]_vars

\* The listener of a Hello(0) is bound while a tunnel of the same address,
\* registered under its own port, is serving.
C19_Witness ==
    \E h, t \in ConnIds :
        /\ pc[h] = "reply" /\ msg[h] = <<"Hello", 0>>
        /\ Serving(t) /\ addr[t] = addr[h] /\ addr[h] # NoAddr
        /\ port_owners[<<lport[t], addr[t]>>] = t
        /\ lport[t] # lport[h]

\* The handler of connection h fails after create_listener was called: the
\* call returned Err, or the Hello reply could not be written.
HelloFails(h) ==
    \/ pc[h] = "alloc" /\ pc'[h] = "failed"
    \/ pc[h] = "reply" /\ pc'[h] = "closed" /\ tstate'[h] = "none"

\* C20: when a handler that evicted the task of (p, a) then fails, nothing
\* is put back: port_owners is left as it is, no entry names the evicted
\* task, which stays aborted or ended, the entry of (p, a) does not name the
\* handler's connection either, and the handler has no listener and no task.
C20_EvictionNotRolledBack ==
    [][\A h \in ConnIds :
          (evicted[h] # NoTask /\ HelloFails(h))
          => /\ port_owners' = port_owners
             /\ \A k \in Keys : port_owners'[k] # evicted[h]
             /\ port_owners'[<<Requested(h), addr[h]>>] # h
             /\ \A t \in ConnIds : t = evicted[h] => ~Serving(t)'
             /\ ~Listening(h)' /\ tstate'[h] = "none" /\ lport'[h] = 0]_vars

\* The bind of a reconnecting client failed because the task it had just
\* aborted still held the port: no entry is left.
C20_Witness ==
    \E h, t \in ConnIds :
        /\ pc[h] = "failed" /\ err[h] = "port already in use"
        /\ host[h].ext = {} /\ host[h].fault = "none"
        /\ cancel[t] /\ Active(t)
        /\ \A k \in Keys : port_owners[k] = NoTask
====
